---------------------------- MODULE Spec2Model ----------------------------
(***************************************************************************)
(* K-means anchor clustering with the 1 - IoU distance                     *)
(* (generate_anchors.py: k_mean_cluster and run_k_mean).                   *)
(*                                                                         *)
(* Numbers.  The program computes with Python floats.  The model computes  *)
(* with exact rationals <<n, d>> (d > 0, lowest terms), so equalities and  *)
(* strict comparisons are those of real arithmetic; rounding is not        *)
(* modelled.  Dividing by zero has no value, as Python raises              *)
(* ZeroDivisionError.                                                      *)
(*                                                                         *)
(* Indices are 0-based as in the source: gt_boxes, centroids, anchors and  *)
(* groups are functions on 0..n-1.                                         *)
(***************************************************************************)
EXTENDS Integers, Sequences, FiniteSets

(***************************************************************************)
(* Bounds of the model.                                                    *)
(***************************************************************************)
\* widths and heights of the enumerated boxes are 1/10 .. MaxDim/10
MaxDim == 2
\* the enumerated box lists hold 1 .. MaxBoxes boxes
MaxBoxes == 2
\* num_anchors ranges over 1 .. MaxK
MaxK == 2
\* cap on the number of run_k_mean executions of one k_mean_cluster run
MaxCalls == 8

(***************************************************************************)
(* Exact rational arithmetic (the float operators of the source).  The     *)
(* arithmetic is written as functions, which take their arguments by       *)
(* value.                                                                  *)
(***************************************************************************)
Rat == Int \X Int

GCD[a \in Nat, b \in Nat] == IF b = 0 THEN a ELSE GCD[b, a % b]

IAbs(n) == IF n < 0 THEN -n ELSE n

\* n/d divided through by g, with a positive denominator
RNormBy[n \in Int, d \in Int, g \in Int] ==
    IF d < 0 THEN <<-(n \div g), -(d \div g)>> ELSE <<n \div g, d \div g>>

\* n/d in lowest terms
RNorm[n \in Int, d \in Int] == RNormBy[n, d, GCD[IAbs(n), IAbs(d)]]

Zero == <<0, 1>>
One == <<1, 1>>
RInt(n) == <<n, 1>>

\* a + b over the common denominator l
RAddOver[a \in Rat, b \in Rat, l \in Int] ==
    RNorm[a[1] * (l \div a[2]) + b[1] * (l \div b[2]), l]

\* a + b, over the least common denominator
RAdd[a \in Rat, b \in Rat] == RAddOver[a, b, (a[2] \div GCD[a[2], b[2]]) * b[2]]

RNeg[a \in Rat] == <<-a[1], a[2]>>

RSub[a \in Rat, b \in Rat] == RAdd[a, RNeg[b]]

\* a * b with g1 cancelled between a's numerator and b's denominator and g2
\* between b's numerator and a's denominator
RMulBy[a \in Rat, b \in Rat, g1 \in Int, g2 \in Int] ==
    <<(a[1] \div g1) * (b[1] \div g2), (a[2] \div g2) * (b[2] \div g1)>>

\* a * b, cancelled crosswise (a and b are in lowest terms)
RMul[a \in Rat, b \in Rat] ==
    RMulBy[a, b, GCD[IAbs(a[1]), b[2]], GCD[IAbs(b[1]), a[2]]]

\* the rationals one can divide by
NonZero == {b \in Rat : b[1] # 0}

\* a / b; b = 0 divides by zero and has no value
RDiv[a \in Rat, b \in NonZero] ==
    RMul[a, IF b[1] < 0 THEN <<-b[2], -b[1]>> ELSE <<b[2], b[1]>>]

RAbs[a \in Rat] == <<IAbs(a[1]), a[2]>>

\* p/q < r/s for p, r >= 0 and q, s > 0, by continued fractions (no products)
FracLess[p \in Nat, q \in Nat, r \in Nat, s \in Nat] ==
    IF p \div q # r \div s THEN p \div q < r \div s
    ELSE IF r % s = 0 THEN FALSE
    ELSE IF p % q = 0 THEN TRUE
    ELSE FracLess[s, r % s, q, p % q]

\* a < b
RLess[a \in Rat, b \in Rat] ==
    IF a[1] < 0
    THEN IF b[1] < 0 THEN FracLess[-b[1], b[2], -a[1], a[2]] ELSE TRUE
    ELSE IF b[1] < 0 THEN FALSE ELSE FracLess[a[1], a[2], b[1], b[2]]

RLeq[a \in Rat, b \in Rat] == ~RLess[b, a]

\* Python's min(a, b): b only when b < a
RMin[a \in Rat, b \in Rat] == IF RLess[b, a] THEN b ELSE a

(***************************************************************************)
(* utils.box: Box and box_iou.                                             *)
(***************************************************************************)
Box(x, y, w, h) == [x |-> x, y |-> y, w |-> w, h |-> h]

\* intersection area of two boxes sharing their centre
box_intersection(a, b) == RMul[RMin[a.w, b.w], RMin[a.h, b.h]]

\* union area, given the intersection area
box_union(a, b, inter) == RSub[RAdd[RMul[a.w, a.h], RMul[b.w, b.h]], inter]

\* intersection over union of two boxes sharing their centre
box_iou(a, b) ==
    CHOOSE iou \in {RDiv[inter, box_union(a, b, inter)] :
                      inter \in {box_intersection(a, b)}} : TRUE

(***************************************************************************)
(* run_k_mean(n_anchors, boxes, centroids): one assignment and update      *)
(* step.  boxes is a function on 0..n-1, centroids one on 0..n_anchors-1.  *)
(* An intermediate value that is used more than once is bound through a    *)
(* one-element set (CHOOSE r \in {e(v) : v \in {value}} : TRUE is e(value)).*)
(***************************************************************************)
\* lines 100-105: loss = 0, empty groups, anchors Box(0, 0, 0, 0)
InitAcc(n_anchors) ==
    [loss |-> Zero,
     groups |-> [i \in 0 .. n_anchors - 1 |-> <<>>],
     anchors |-> [i \in 0 .. n_anchors - 1 |-> Box(0, 0, Zero, Zero)]]

\* variant of NearestFrom with "distance <= min_distance": the last of
\* equidistant centroids wins
RECURSIVE NearestFromLast(_, _, _, _, _)
NearestFromLast(box, centroids, i, md, gi) ==
    IF i \notin DOMAIN centroids THEN [min_distance |-> md, group_index |-> gi]
    ELSE CHOOSE r \in
           {IF RLeq[distance, md]
            THEN NearestFromLast(box, centroids, i + 1, distance, i)
            ELSE NearestFromLast(box, centroids, i + 1, md, gi) :
              distance \in {RSub[One, box_iou(box, centroids[i])]}} : TRUE

\* variant of NearestFrom with "distance > min_distance"
RECURSIVE NearestFromReversed(_, _, _, _, _)
NearestFromReversed(box, centroids, i, md, gi) ==
    IF i \notin DOMAIN centroids THEN [min_distance |-> md, group_index |-> gi]
    ELSE CHOOSE r \in
           {IF RLess[md, distance]
            THEN NearestFromReversed(box, centroids, i + 1, distance, i)
            ELSE NearestFromReversed(box, centroids, i + 1, md, gi) :
              distance \in {RSub[One, box_iou(box, centroids[i])]}} : TRUE

\* lines 111-115: the inner loop over enumerate(centroids), from index i on,
\* with the running min_distance md and group_index gi
RECURSIVE NearestFrom(_, _, _, _, _)
NearestFrom(box, centroids, i, md, gi) ==
    IF i \notin DOMAIN centroids THEN [min_distance |-> md, group_index |-> gi]
    ELSE CHOOSE r \in
           {IF RLess[distance, md]
            THEN NearestFrom(box, centroids, i + 1, distance, i)
            ELSE NearestFrom(box, centroids, i + 1, md, gi) :
              distance \in {RSub[One, box_iou(box, centroids[i])]}} : TRUE

\* lines 108-115: min_distance = 1, group_index = 0, then the inner loop
Nearest(box, centroids) == NearestFrom(box, centroids, 0, One, 0)

\* variant of AddBox with the groups built as [[]] * n_anchors: one list
\* shared by every group
AddBoxShared(acc, b, box, near) ==
    [loss |-> RAdd[acc.loss, near.min_distance],
     groups |-> [i \in DOMAIN acc.groups |-> Append(acc.groups[i], b)],
     anchors |-> [acc.anchors EXCEPT ![near.group_index].w = RAdd[@, box.w],
                                     ![near.group_index].h = RAdd[@, box.h]]]

\* variant of AddBox with "anchors[group_index].h += box.w"
AddBoxSwapped(acc, b, box, near) ==
    [loss |-> RAdd[acc.loss, near.min_distance],
     groups |-> [acc.groups EXCEPT ![near.group_index] = Append(@, b)],
     anchors |-> [acc.anchors EXCEPT ![near.group_index].w = RAdd[@, box.w],
                                     ![near.group_index].h = RAdd[@, box.w]]]

\* lines 117-120: the box joins its group; loss and the group's sums grow
AddBox(acc, b, box, near) ==
    [loss |-> RAdd[acc.loss, near.min_distance],
     groups |-> [acc.groups EXCEPT ![near.group_index] = Append(@, b)],
     anchors |-> [acc.anchors EXCEPT ![near.group_index].w = RAdd[@, box.w],
                                     ![near.group_index].h = RAdd[@, box.h]]]

\* lines 107-120: the loop over boxes, from box index b on
RECURSIVE AssignLoop(_, _, _, _)
AssignLoop(boxes, centroids, b, acc) ==
    IF b \notin DOMAIN boxes THEN acc
    ELSE CHOOSE r \in
           {AssignLoop(boxes, centroids, b + 1, nxt) :
              nxt \in {AddBox(acc, b, boxes[b], near) :
                         near \in {Nearest(boxes[b], centroids)}}} : TRUE

\* variant of UpdateAnchor without the division: the sums are returned
UpdateAnchorNoMean(anchor, group) == anchor

\* lines 123-126: a non-empty group's sums become means; an empty group's
\* anchor is skipped
UpdateAnchor(anchor, group) ==
    IF Len(group) = 0 THEN anchor
    ELSE [anchor EXCEPT !.w = RDiv[@, RInt(Len(group))],
                        !.h = RDiv[@, RInt(Len(group))]]

\* lines 122-126: the loop over the anchors
UpdateLoop(n_anchors, acc) ==
    [i \in 0 .. n_anchors - 1 |-> UpdateAnchor(acc.anchors[i], acc.groups[i])]

\* lines 131-133: iou summed over the members of one group, from position p on
RECURSIVE GroupIou(_, _, _, _)
GroupIou(boxes, group, anchor, p) ==
    IF p > Len(group) THEN Zero
    ELSE RAdd[box_iou(boxes[group[p]], anchor), GroupIou(boxes, group, anchor, p + 1)]

\* lines 128-133: iou summed over all groups, from group i on
RECURSIVE IouSum(_, _, _, _)
IouSum(boxes, groups, anchors, i) ==
    IF i \notin DOMAIN anchors THEN Zero
    ELSE RAdd[GroupIou(boxes, groups[i], anchors[i], 1),
              IouSum(boxes, groups, anchors, i + 1)]

\* lines 129-133: counter, one per member of every group
RECURSIVE Counter(_, _)
Counter(groups, i) ==
    IF i \notin DOMAIN groups THEN 0 ELSE Len(groups[i]) + Counter(groups, i + 1)

\* lines 128-137: avg_iou = iou / counter, and the three return values (with
\* the groups, for the properties)
Returned(boxes, acc, new) ==
    [anchors |-> new,
     avg_iou |-> RDiv[IouSum(boxes, acc.groups, new, 0), RInt(Counter(acc.groups, 0))],
     loss |-> acc.loss,
     groups |-> acc.groups]

\* lines 122-137, on the accumulators the loop over the boxes left
UpdateAndReturn(n_anchors, boxes, acc) ==
    CHOOSE r \in {Returned(boxes, acc, new) : new \in {UpdateLoop(n_anchors, acc)}} : TRUE

\* variant of run_k_mean in which the anchor of an empty group keeps the
\* input centroid
run_k_mean_keeps(n_anchors, boxes, centroids) ==
    CHOOSE r \in
      {[ret EXCEPT !.anchors = [i \in 0 .. n_anchors - 1 |->
                                  IF ret.groups[i] = <<>> THEN centroids[i]
                                  ELSE ret.anchors[i]]] :
         ret \in {UpdateAndReturn(n_anchors, boxes, acc) :
                    acc \in {AssignLoop(boxes, centroids, 0, InitAcc(n_anchors))}}} : TRUE

\* lines 82-137
run_k_mean(n_anchors, boxes, centroids) ==
    CHOOSE r \in
      {UpdateAndReturn(n_anchors, boxes, acc) :
         acc \in {AssignLoop(boxes, centroids, 0, InitAcc(n_anchors))}} : TRUE

(***************************************************************************)
(* The inputs the model enumerates.                                        *)
(***************************************************************************)
\* a ground-truth box as __main__ builds it (line 49): Box(0, 0, w, h), here
\* with w and h in tenths of the image size
GtBox(w10, h10) == Box(0, 0, RNorm[w10, 10], RNorm[h10, 10])

\* the shapes of the enumerated boxes, numbered 0 .. MaxDim * MaxDim - 1
Shape(c) == GtBox((c \div MaxDim) + 1, (c % MaxDim) + 1)

\* the box lists of 1 .. MaxBoxes boxes, listed in shape order
BoxLists ==
    UNION {{[b \in 0 .. n - 1 |-> Shape(f[b])] :
              f \in {g \in [0 .. n - 1 -> 0 .. MaxDim * MaxDim - 1] :
                       \A b \in 0 .. n - 2 : g[b] <= g[b + 1]}} :
           n \in 1 .. MaxBoxes}

\* the four boxes (0.5,0.5), (0.5,0.5), (0.1,0.1), (0.1,0.1)
ScenarioBoxes ==
    [b \in 0 .. 3 |-> IF b < 2 THEN GtBox(5, 5) ELSE GtBox(1, 1)]

\* three boxes on which the groups change between steps
RegroupBoxes ==
    [b \in 0 .. 2 |-> IF b = 0 THEN GtBox(1, 1)
                      ELSE IF b = 1 THEN GtBox(1, 2) ELSE GtBox(3, 1)]

\* --loss: the default 1e-5 (lines 26, 61) and a coarse threshold
LossDefault == RNorm[1, 100000]
LossThresholds == {LossDefault, RNorm[1, 2]}

(***************************************************************************)
(* State.                                                                  *)
(***************************************************************************)
VARIABLES
    pc,                 \* position in k_mean_cluster (or in the single call)
    k,                  \* k / n_anchors
    gt_boxes,           \* the ground-truth boxes
    loss_convergence,   \* the threshold
    centroid_indices,   \* line 66: the drawn indices
    centroids,          \* the centroids argument of the latest run_k_mean call
    anchors,            \* anchors of the latest call
    avg_iou,            \* avg_iou of the latest call
    groups,             \* groups built by the latest call
    loss,               \* k_mean_cluster's loss
    curr_loss,          \* k_mean_cluster's curr_loss
    losses,             \* the loss of every run_k_mean execution so far, in order
    result              \* what k_mean_cluster returned

vars == <<pc, k, gt_boxes, loss_convergence, centroid_indices, centroids,
          anchors, avg_iou, groups, loss, curr_loss, losses, result>>

None == <<>>

N == Cardinality(DOMAIN gt_boxes)

\* number of run_k_mean executions so far
calls == Len(losses)

(***************************************************************************)
(* k_mean_cluster(k, gt_boxes, loss_convergence).                          *)
(***************************************************************************)
Init ==
    /\ pc = "draw"
    /\ gt_boxes \in BoxLists \cup {ScenarioBoxes, RegroupBoxes}
    /\ k \in 1 .. MaxK
    /\ loss_convergence \in LossThresholds
    /\ centroid_indices = None
    /\ centroids = None
    /\ anchors = None
    /\ avg_iou = None
    /\ groups = None
    /\ loss = None
    /\ curr_loss = None
    /\ losses = <<>>
    /\ result = None

\* lines 66-69: np.random.choice(len(gt_boxes), k) draws k indices with
\* replacement; the centroids are the boxes at those indices
Draw ==
    /\ pc = "draw"
    /\ \E idx \in [0 .. k - 1 -> 0 .. N - 1] :
          /\ centroid_indices' = idx
          /\ centroids' = [i \in 0 .. k - 1 |-> gt_boxes[idx[i]]]
    /\ pc' = "seed"
    /\ UNCHANGED <<k, gt_boxes, loss_convergence, anchors, avg_iou, groups,
                   loss, curr_loss, losses, result>>

\* line 72: anchors, avg_iou, loss = run_k_mean(k, gt_boxes, centroids)
Seed ==
    /\ pc = "seed"
    /\ calls < MaxCalls
    /\ \E r \in {run_k_mean(k, gt_boxes, centroids)} :
           /\ anchors' = r.anchors
           /\ avg_iou' = r.avg_iou
           /\ loss' = r.loss
           /\ groups' = r.groups
           /\ losses' = Append(losses, r.loss)
    /\ pc' = "loop"
    /\ UNCHANGED <<k, gt_boxes, loss_convergence, centroid_indices, centroids,
                   curr_loss, result>>

\* variant of LoopCentroids: the loop hands over the centroids of the call
\* before instead of its anchors
LoopCentroidsStale == centroids

\* the centroids the loop hands to run_k_mean (line 74): the current anchors
LoopCentroids == anchors

\* line 74: anchors, avg_iou, curr_loss = run_k_mean(k, gt_boxes, anchors)
LoopStep ==
    /\ pc = "loop"
    /\ calls < MaxCalls
    /\ \E r \in {run_k_mean(k, gt_boxes, LoopCentroids)} :
           /\ anchors' = r.anchors
           /\ avg_iou' = r.avg_iou
           /\ curr_loss' = r.loss
           /\ groups' = r.groups
           /\ losses' = Append(losses, r.loss)
    /\ centroids' = LoopCentroids
    /\ pc' = "check"
    /\ UNCHANGED <<k, gt_boxes, loss_convergence, centroid_indices, loss, result>>

\* variant of Converged with ">" for "<"
ConvergedReversed(l, c, t) == RLess[t, RAbs[RSub[l, c]]]

\* variant of Converged without abs
ConvergedSigned(l, c, t) == RLess[RSub[l, c], t]

\* line 75: abs(loss - curr_loss) < loss_convergence
Converged(l, c, t) == RLess[RAbs[RSub[l, c]], t]

\* lines 75-76: break
Break ==
    /\ pc = "check"
    /\ Converged(loss, curr_loss, loss_convergence)
    /\ pc' = "return"
    /\ UNCHANGED <<k, gt_boxes, loss_convergence, centroid_indices, centroids,
                   anchors, avg_iou, groups, loss, curr_loss, losses, result>>

\* line 77: loss = curr_loss, and around the loop again
Continue ==
    /\ pc = "check"
    /\ ~Converged(loss, curr_loss, loss_convergence)
    /\ loss' = curr_loss
    /\ pc' = "loop"
    /\ UNCHANGED <<k, gt_boxes, loss_convergence, centroid_indices, centroids,
                   anchors, avg_iou, groups, curr_loss, losses, result>>

\* line 79: return anchors, avg_iou
Return ==
    /\ pc = "return"
    /\ result' = [anchors |-> anchors, avg_iou |-> avg_iou]
    /\ pc' = "done"
    /\ UNCHANGED <<k, gt_boxes, loss_convergence, centroid_indices, centroids,
                   anchors, avg_iou, groups, loss, curr_loss, losses>>

Next == Draw \/ Seed \/ LoopStep \/ Break \/ Continue \/ Return

Spec == Init /\ [][Next]_vars

\* the interpreter runs the next statement of k_mean_cluster whenever there is one
FairSpec == Spec /\ WF_vars(Next)

(***************************************************************************)
(* A single call run_k_mean(k, gt_boxes, centroids) on centroids of the    *)
(* caller's choice: each centroid is one of the boxes or Box(0, 0, 0, 0).  *)
(***************************************************************************)
\* the centroid lists of the single call: index N stands for Box(0, 0, 0, 0)
CallCentroid(i) == IF i = N THEN Box(0, 0, Zero, Zero) ELSE gt_boxes[i]

InitCall ==
    /\ pc = "pick"
    /\ gt_boxes \in BoxLists \cup {ScenarioBoxes, RegroupBoxes}
    /\ k \in 1 .. MaxK
    /\ loss_convergence = None
    /\ centroid_indices = None
    /\ centroids = None
    /\ anchors = None
    /\ avg_iou = None
    /\ groups = None
    /\ loss = None
    /\ curr_loss = None
    /\ losses = <<>>
    /\ result = None

\* the caller builds the centroids argument
Pick ==
    /\ pc = "pick"
    /\ \E idx \in [0 .. k - 1 -> 0 .. N] :
          /\ centroid_indices' = idx
          /\ centroids' = [i \in 0 .. k - 1 |-> CallCentroid(idx[i])]
    /\ pc' = "call"
    /\ UNCHANGED <<k, gt_boxes, loss_convergence, anchors, avg_iou, groups,
                   loss, curr_loss, losses, result>>

\* lines 82-137: the call and its three return values
Call ==
    /\ pc = "call"
    /\ \E r \in {run_k_mean(k, gt_boxes, centroids)} :
           /\ anchors' = r.anchors
           /\ avg_iou' = r.avg_iou
           /\ loss' = r.loss
           /\ groups' = r.groups
           /\ losses' = Append(losses, r.loss)
    /\ pc' = "returned"
    /\ UNCHANGED <<k, gt_boxes, loss_convergence, centroid_indices, centroids,
                   curr_loss, result>>

NextCall == Pick \/ Call

SpecCall == InitCall /\ [][NextCall]_vars

(***************************************************************************)
(* Vocabulary of the properties.                                           *)
(***************************************************************************)
Idx == 0 .. k - 1
ZeroBox == Box(0, 0, Zero, Zero)

\* some run_k_mean call has returned; centroids, anchors, avg_iou and groups
\* are the argument and the results of the latest one
Called == pc \in {"loop", "check", "return", "done", "returned"}

\* the places <<i, p>> of the groups that hold box index b
PlacesOf(b) ==
    {ip \in Idx \X (1 .. N) : ip[2] <= Len(groups[ip[1]]) /\ groups[ip[1]][ip[2]] = b}

\* the group of box b
GroupOf(b) == CHOOSE i \in Idx : \E p \in 1 .. Len(groups[i]) : groups[i][p] = b

RECURSIVE SumLen(_)
SumLen(i) == IF i = k THEN 0 ELSE Len(groups[i]) + SumLen(i + 1)

\* 1 - IoU of box b to centroid i of the latest call
Dist(b, i) == RSub[One, box_iou(gt_boxes[b], centroids[i])]

\* the least distance of box b to the centroids of the latest call
MinDist(b) ==
    CHOOSE d \in {Dist(b, i) : i \in Idx} : \A e \in {Dist(b, i) : i \in Idx} : RLeq[d, e]

\* the smallest centroid index at that distance
FirstNearest(b) ==
    CHOOSE i \in Idx : /\ \A j \in Idx : RLeq[Dist(b, i), Dist(b, j)]
                       /\ \A j \in 0 .. i - 1 : RLess[Dist(b, i), Dist(b, j)]

RECURSIVE NearestSum(_)
NearestSum(b) == IF b = N THEN Zero ELSE RAdd[MinDist(b), NearestSum(b + 1)]

\* sums of the widths and heights of the boxes of a group, from position p on
RECURSIVE SumW(_, _)
SumW(group, p) ==
    IF p > Len(group) THEN Zero ELSE RAdd[gt_boxes[group[p]].w, SumW(group, p + 1)]

RECURSIVE SumH(_, _)
SumH(group, p) ==
    IF p > Len(group) THEN Zero ELSE RAdd[gt_boxes[group[p]].h, SumH(group, p + 1)]

LastLoss == losses[Len(losses)]

\* the j-th call's loss is within the threshold of the call before it
ConvergedAt(j) == RLess[RAbs[RSub[losses[j - 1], losses[j]]], loss_convergence]

(***************************************************************************)
(* C1: after a single call run_k_mean(K, boxes, centroids) every input box *)
(* is at exactly one place of exactly one of the K groups, and the group   *)
(* sizes sum to N = len(boxes).                                            *)
(***************************************************************************)
C1_PartitionTotality ==
    pc = "returned" =>
        /\ DOMAIN groups = Idx
        /\ \A b \in DOMAIN gt_boxes : Cardinality(PlacesOf(b)) = 1
        /\ SumLen(0) = N

\* a call that spread at least three boxes over two groups
C1_Witness ==
    /\ pc = "returned"
    /\ N >= 3
    /\ \E i, j \in Idx : i # j /\ groups[i] # <<>> /\ groups[j] # <<>>

(***************************************************************************)
(* C7: run_k_mean puts each box in the group of the smallest centroid      *)
(* index that attains the least 1 - IoU over all centroids (the first of   *)
(* equidistant centroids wins); a box whose IoU with every centroid is 0   *)
(* goes to group 0 and adds exactly 1 to the loss, the loss being the sum  *)
(* of the boxes' least distances.                                          *)
(***************************************************************************)
C7_FirstNearestWins ==
    pc = "returned" =>
        /\ \A b \in DOMAIN gt_boxes :
              /\ GroupOf(b) = FirstNearest(b)
              /\ (\A i \in Idx : Dist(b, i) = One) => GroupOf(b) = 0 /\ MinDist(b) = One
        /\ loss = NearestSum(0)

\* two or more centroids, all of IoU 0 with every box: all boxes in group 0,
\* each adding 1 to the loss
C7_Witness ==
    /\ pc = "returned"
    /\ k >= 2
    /\ N >= 2
    /\ \A b \in DOMAIN gt_boxes : \A i \in Idx : Dist(b, i) = One
    /\ Len(groups[0]) = N
    /\ loss = RInt(N)

(***************************************************************************)
(* C9: for every non-empty group i of a run_k_mean call, anchor i has the  *)
(* mean width and the mean height of exactly the boxes of group i; the     *)
(* input centroid does not enter (with K = 1: the mean of all boxes).      *)
(***************************************************************************)
C9_AnchorIsGroupMean ==
    Called =>
        \A i \in Idx :
            groups[i] # <<>> =>
                /\ RMul[anchors[i].w, RInt(Len(groups[i]))] = SumW(groups[i], 1)
                /\ RMul[anchors[i].h, RInt(Len(groups[i]))] = SumH(groups[i], 1)
                /\ anchors[i].x = 0 /\ anchors[i].y = 0

\* a group of two or more boxes of different widths whose mean differs from
\* the centroid the call was given
C9_Witness ==
    /\ Called
    /\ \E i \in Idx :
          /\ Len(groups[i]) >= 2
          /\ gt_boxes[groups[i][1]].w # gt_boxes[groups[i][2]].w
          /\ anchors[i].w # centroids[i].w

(***************************************************************************)
(* C6 as claimed: the anchor of a group that is empty after assignment has *)
(* the width and height of the input centroid of that index.               *)
(***************************************************************************)
C6_EmptyGroupKeepsCentroid ==
    Called =>
        \A i \in Idx :
            groups[i] = <<>> =>
                anchors[i].w = centroids[i].w /\ anchors[i].h = centroids[i].h

(***************************************************************************)
(* C6 as amended: the anchor of a group that is empty after assignment is  *)
(* Box(0, 0, 0, 0), whatever the input centroid of that index was.         *)
(***************************************************************************)
C6_EmptyGroupAnchorIsZero ==
    Called => \A i \in Idx : groups[i] = <<>> => anchors[i] = ZeroBox

\* an empty group whose input centroid was a box of positive size
C6_Witness ==
    /\ Called
    /\ \E i \in Idx : groups[i] = <<>> /\ centroids[i].w # Zero /\ anchors[i] = ZeroBox

(***************************************************************************)
(* C3 as claimed: with K = 1 the driver returns after exactly two          *)
(* run_k_mean executions (the seed step and one loop step).                *)
(***************************************************************************)
C3_ExactlyTwoCalls == (pc = "done" /\ k = 1) => calls = 2

(***************************************************************************)
(* C3 as amended: with K = 1 the driver converges at the first or at the   *)
(* second check after the seed step: run_k_mean is executed two or three   *)
(* times, the third time only when the seed loss (against the drawn box)   *)
(* is not within the threshold of the second loss (against the mean box),  *)
(* and the single anchor returned is the mean of all boxes.                *)
(***************************************************************************)
C3_TwoOrThreeCalls ==
    k = 1 =>
        /\ calls <= 3
        /\ (pc = "check" /\ calls = 3) => ConvergedAt(3)
        /\ (pc \in {"return", "done"}) =>
              /\ calls \in {2, 3}
              /\ (calls = 2 <=> ConvergedAt(2))
        /\ pc = "done" =>
              /\ RMul[result.anchors[0].w, RInt(N)] = SumW(groups[0], 1)
              /\ RMul[result.anchors[0].h, RInt(N)] = SumH(groups[0], 1)
              /\ Len(groups[0]) = N

\* a K = 1 run that needed the third execution
C3_Witness == pc = "done" /\ k = 1 /\ calls = 3 /\ N >= 2

\* the anchors (0.5,0.5) and (0.1,0.1) in some order, with avg_iou = 1
ScenarioAnchors ==
    /\ {result.anchors[0], result.anchors[1]} = {GtBox(5, 5), GtBox(1, 1)}
    /\ result.avg_iou = One

\* the two drawn boxes differ in shape
MixedDraw == gt_boxes[centroid_indices[0]] # gt_boxes[centroid_indices[1]]

(***************************************************************************)
(* C4 as claimed: on the boxes (0.5,0.5), (0.5,0.5), (0.1,0.1), (0.1,0.1)  *)
(* with K = 2, whatever two indices are drawn, the driver returns the      *)
(* anchors (0.5,0.5) and (0.1,0.1) in some order with avg_iou = 1.         *)
(***************************************************************************)
C4_EveryDraw ==
    (pc = "done" /\ gt_boxes = ScenarioBoxes /\ k = 2) => ScenarioAnchors

(***************************************************************************)
(* C4 as amended: on those boxes with K = 2, for every draw of one         *)
(* (0.5,0.5) box and one (0.1,0.1) box, in either order, the driver        *)
(* returns the anchors (0.5,0.5) and (0.1,0.1) with avg_iou = 1; a draw of *)
(* two boxes of the same shape returns the anchors (0.3,0.3) and (0,0).    *)
(***************************************************************************)
C4_MixedDraw ==
    (pc = "done" /\ gt_boxes = ScenarioBoxes /\ k = 2) =>
        IF MixedDraw THEN ScenarioAnchors
        ELSE result.anchors = [i \in 0 .. 1 |-> IF i = 0 THEN GtBox(3, 3) ELSE ZeroBox]

\* the scenario returned from a draw that took the small box first
C4_Witness ==
    /\ pc = "done" /\ gt_boxes = ScenarioBoxes /\ k = 2 /\ MixedDraw
    /\ centroid_indices[0] >= 2
    /\ result.anchors[0] = GtBox(1, 1)

(***************************************************************************)
(* C5 as claimed: within one run the losses of successive run_k_mean calls *)
(* never increase: each call's loss is <= the loss of the call before it.  *)
(***************************************************************************)
C5_LossNonIncreasing ==
    \A j \in 2 .. Len(losses) : RLeq[losses[j], losses[j - 1]]

\* the latest call's loss is the sum of the boxes' least distances to the
\* centroids it was given
LossIsNearestSum == (Called /\ pc # "returned") => LastLoss = NearestSum(0)

\* a loop call's loss is <= N * (1 - avg_iou) of the call before it
LossBoundedByAvgIou ==
    (pc = "loop" /\ pc' = "check") =>
        RLeq[curr_loss', RMul[RInt(N), RSub[One, avg_iou]]]

(***************************************************************************)
(* C5 as amended: each call's loss is the sum over all boxes of 1 - IoU to *)
(* the nearest of the centroids passed into that call, and for every pair  *)
(* of consecutive calls (the seed call included) the later loss is         *)
(* <= N * (1 - avg_iou) of the earlier call, the sum of 1 - IoU of each    *)
(* box to the mean anchor of the group the earlier call put it in.  The    *)
(* later loss may exceed the earlier loss.                                 *)
(***************************************************************************)
C5_LossBoundedByAvgIou == []LossIsNearestSum /\ [][LossBoundedByAvgIou]_vars

\* a loop call whose loss is larger than the loss of the call before it
C5_Witness ==
    /\ pc = "check"
    /\ RLess[loss, curr_loss]
    /\ k >= 2

\* where the driver stands, against the losses of the calls made so far
C8_ExitAtFirstConvergedCall ==
    /\ pc \in {"loop", "check"} =>
          \A j \in 2 .. Len(losses) - (IF pc = "check" THEN 1 ELSE 0) : ~ConvergedAt(j)
    /\ pc = "loop" => loss = LastLoss
    /\ pc = "check" => loss = losses[Len(losses) - 1] /\ curr_loss = LastLoss
    /\ pc \in {"return", "done"} =>
          /\ calls >= 2
          /\ ConvergedAt(Len(losses))
          /\ \A j \in 2 .. Len(losses) - 1 : ~ConvergedAt(j)
    /\ pc = "done" =>
          /\ result = [anchors |-> anchors, avg_iou |-> avg_iou]
          /\ \E r \in {run_k_mean(k, gt_boxes, centroids)} :
                result.anchors = r.anchors /\ result.avg_iou = r.avg_iou

\* what each step of the driver hands on
C8_LoopCallGetsAnchors ==
    /\ pc = "seed" => pc' = "loop" /\ Len(losses') = 1
    /\ (pc = "loop" /\ pc' = "check") => centroids' = anchors
    /\ pc = "check" => UNCHANGED <<anchors, avg_iou, centroids>>
    /\ pc = "return" => UNCHANGED <<anchors, avg_iou, centroids>>

(***************************************************************************)
(* C8: k_mean_cluster goes from the seed call straight to a loop call      *)
(* (the seed result is not tested), every loop call gets the anchors of    *)
(* the call before it as its centroids, the loop is left at the first loop *)
(* call whose loss is within the threshold of the loss of the call before  *)
(* it, and the anchors and avg_iou returned are those of that last call;   *)
(* run_k_mean is executed at least twice.                                  *)
(***************************************************************************)
C8_DriverProtocol == []C8_ExitAtFirstConvergedCall /\ [][C8_LoopCallGetsAnchors]_vars

\* a run under the coarse threshold that went around the loop twice
C8_Witness ==
    /\ pc = "done"
    /\ calls >= 3
    /\ loss_convergence # LossDefault

\* a (0,0) anchor gets no box in the next call and is (0,0) again
DeadStaysDead ==
    (pc = "loop" /\ pc' = "check") =>
        \A i \in Idx :
            (anchors[i].w = Zero /\ anchors[i].h = Zero) =>
                groups'[i] = <<>> /\ anchors'[i] = ZeroBox

\* after the seed call, the later of two centroids drawn from one box has
\* an empty group
SameBoxDrawnTwice ==
    (pc = "loop" /\ calls = 1) =>
        \A i, j \in Idx :
            (i < j /\ centroid_indices[i] = centroid_indices[j]) =>
                groups[j] = <<>> /\ anchors[j] = ZeroBox

(***************************************************************************)
(* C10: dead anchors stay dead.  Over boxes of positive width and height,  *)
(* an anchor that is (0,0) after one call has an empty group and is (0,0)  *)
(* again after the next call; two initial centroids drawn at indices       *)
(* i < j from the same box leave group j empty in the seed call; so the    *)
(* anchors returned may include (0,0).                                     *)
(***************************************************************************)
C10_DeadAnchorsStayDead == []SameBoxDrawnTwice /\ [][DeadStaysDead]_vars

\* a (0,0) anchor is returned after the same box was drawn twice
C10_Witness ==
    /\ pc = "done"
    /\ \E i, j \in Idx :
          /\ i < j
          /\ centroid_indices[i] = centroid_indices[j]
          /\ result.anchors[j] = ZeroBox
    /\ N >= 2

=============================================================================
